---- MODULE Spec2Model ----
(***************************************************************************)
(* Model of the reservoir monitoring dashboard (app.py, init_db.py,        *)
(* models.py).                                                             *)
(*                                                                         *)
(* Numbers.  Levels, storages and coordinates are Python floats in the     *)
(* source.  They are modelled as integers counting thousandths of the      *)
(* source unit (145.0 m is 145000), so comparison, subtraction and         *)
(* rounding to two decimals or to one decimal are all observable.          *)
(*                                                                         *)
(* Optional values.  Python's None is the empty set and a present value v  *)
(* is the singleton {v}; an absent reading therefore differs from every    *)
(* reading, including one whose fields are all zero.                       *)
(***************************************************************************)
EXTENDS Integers, Sequences, FiniteSets

VARIABLES
    \* ---- a function called on its own (SpecFlood, SpecQuery, SpecReport) ----
    args,             \* the arguments of the call
    ret,              \* None before the call, {what it returned} after it
    \* ---- the store and the two programs that use it (Spec) ----
    db,               \* committed rows: [reservoirs, realtime_data]
    clock,            \* datetime.utcnow(), the cache's timer
    last_run,         \* the last program run: which, how it ended, its session
    widgets,          \* the widget values of the last run of main()
    view,             \* what the last run of main() rendered
    check_calls,      \* reservoir id -> calls of check_flood_limit in that run
    submits,          \* number of successful form submissions so far
    \* ---- weather lookup (SpecWeather, and create_map in Spec) ----
    weather_cache,    \* st.cache_data store: (lat, lon) -> None or {entry}
    requests_sent,    \* number of external HTTP requests issued so far
    last_fetch,       \* (lat, lon) -> None or {the last call that sent a request}
    last_call,        \* None, or {the most recent direct get_weather call}
    calls_made        \* number of direct get_weather calls (SpecWeather)

vars == <<args, ret, db, clock, last_run, widgets, view, check_calls, submits,
          weather_cache, requests_sent, last_fetch, last_call, calls_made>>

callVars == <<args, ret>>

appVars == <<db, last_run, widgets, view, check_calls, submits>>

weatherVars == <<weather_cache, requests_sent, last_fetch>>

None == {}

Some(v) == {v}

\* The value of a present optional.
The(opt) == CHOOSE v \in opt : TRUE

Abs(x) == IF x < 0 THEN -x ELSE x

Max(S) == CHOOSE x \in S : \A y \in S : y <= x

Min(S) == CHOOSE x \in S : \A y \in S : x <= y

(***************************************************************************)
(* Python's round(x, ndigits) and the format specification ".1f": the      *)
(* closest multiple of `unit`, the even multiple when two are equally      *)
(* close.  x is in thousandths; the result is in thousandths too.          *)
(***************************************************************************)
RoundHalfEven(x, unit) ==
    LET a == Abs(x)
        q == a \div unit
        r == a % unit
        up == \/ 2 * r > unit
              \/ (2 * r = unit /\ q % 2 = 1)
        m == (IF up THEN q + 1 ELSE q) * unit
    IN  IF x < 0 THEN -m ELSE m

\* round(x, 2)
Round2(x) == RoundHalfEven(x, 10)

\* f"{x:.1f}"
Format1f(x) == RoundHalfEven(x, 100)

(***************************************************************************)
(* models.py: the two tables.                                              *)
(***************************************************************************)
Reservoir(id, name, longitude, latitude, flood_limit_level, design_capacity) ==
    [id |-> id, name |-> name, longitude |-> longitude, latitude |-> latitude,
     flood_limit_level |-> flood_limit_level,
     design_capacity |-> design_capacity]

RealtimeData(id, reservoir_id, timestamp, water_level, storage) ==
    [id |-> id, reservoir_id |-> reservoir_id, timestamp |-> timestamp,
     water_level |-> water_level, storage |-> storage]

(***************************************************************************)
(* app.py, check_flood_limit.                                              *)
(***************************************************************************)
FloodResult(is_over_limit, over_value) ==
    [is_over_limit |-> is_over_limit, over_value |-> over_value]

check_flood_limit_ge(reservoir, latest_data) ==
    IF reservoir.flood_limit_level = None
    THEN FloodResult(FALSE, None)
    ELSE IF latest_data = None
    THEN FloodResult(FALSE, None)
    ELSE LET current_level == The(latest_data).water_level
             flood_limit == The(reservoir.flood_limit_level)
         IN  IF current_level >= flood_limit
             THEN FloodResult(TRUE, Some(Round2(current_level - flood_limit)))
             ELSE FloodResult(FALSE, None)

check_flood_limit(reservoir, latest_data) ==
    IF reservoir.flood_limit_level = None
    THEN FloodResult(FALSE, None)
    ELSE IF latest_data = None
    THEN FloodResult(FALSE, None)
    ELSE LET current_level == The(latest_data).water_level
             flood_limit == The(reservoir.flood_limit_level)
         IN  IF current_level > flood_limit
             THEN FloodResult(TRUE, Some(Round2(current_level - flood_limit)))
             ELSE FloodResult(FALSE, None)

(***************************************************************************)
(* init_db.py, init_database: the seed rows.  The ids are those the store  *)
(* generates for the first three rows of an empty table.                   *)
(***************************************************************************)
r1 == Reservoir(1, "r1_sanxia", 111003, 30823, Some(145000), Some(393000))

r2 == Reservoir(2, "r2_danjiangkou", 111513, 32650, Some(157000), Some(174000))

r3 == Reservoir(3, "r3_xiaolangdi", 112465, 34916, Some(275000), Some(126000))

SeedReservoirs == {r1, r2, r3}

\* d1, d2, d3 share one timestamp: `now` is read once (line 70).
SeedData(now) ==
    {RealtimeData(1, r1.id, now, 160000, 300000),
     RealtimeData(2, r2.id, now, 158500, 140000),
     RealtimeData(3, r3.id, now, 270000, 110000)}

(***************************************************************************)
(* app.py, get_weather: the external service.  A response is what one GET  *)
(* to the forecast endpoint produces: the transport may fail, the status   *)
(* may be an error, the body may be no JSON, JSON that is no object, or an *)
(* object whose current_weather member is missing, null, or an object with *)
(* or without its two fields.                                              *)
(***************************************************************************)
Body(syntax, current_weather, temperature, weathercode) ==
    [syntax |-> syntax, current_weather |-> current_weather,
     temperature |-> temperature, weathercode |-> weathercode]

Response(transport, status, body) ==
    [transport |-> transport, status |-> status, body |-> body]

NoBody == Body("not_json", "absent", None, None)

Responses ==
    {Response("network_error", 0, NoBody),
     Response("timeout", 0, NoBody),
     Response("ok", 500, NoBody),
     Response("ok", 200, NoBody),
     Response("ok", 200, Body("array", "absent", None, None)),
     Response("ok", 200, Body("object", "absent", None, None)),
     Response("ok", 200, Body("object", "null", None, None)),
     Response("ok", 200, Body("object", "object", None, Some(1))),
     Response("ok", 200, Body("object", "object", Some(21000), Some(1)))}

\* What the function body hands back: a value, or an exception in flight.
Returned(value) == [raised |-> FALSE, value |-> Some(value)]

Raised == [raised |-> TRUE, value |-> None]

WeatherData(temperature, weathercode) ==
    [variant |-> "weather", temperature |-> temperature,
     weathercode |-> weathercode]

WeatherError ==
    [variant |-> "error", temperature |-> None, weathercode |-> None]

\* Lines 61-71, the body of the try block.
get_weather_try(resp) ==
    IF resp.transport # "ok"
    THEN Raised                                   \* requests.get raises
    ELSE IF resp.status >= 400
    THEN Raised                                   \* raise_for_status()
    ELSE IF resp.body.syntax = "not_json"
    THEN Raised                                   \* response.json()
    ELSE IF resp.body.syntax # "object"
    THEN Raised                                   \* data.get: AttributeError
    ELSE IF resp.body.current_weather = "null"
    THEN Raised                         \* current_weather.get: AttributeError
    ELSE IF resp.body.current_weather = "absent"
    THEN Returned(WeatherData(None, None))        \* the default {}
    ELSE Returned(WeatherData(resp.body.temperature, resp.body.weathercode))

\* A handler that catches requests' own exceptions only.
get_weather_uncached_narrow(resp) ==
    LET t == get_weather_try(resp)
    IN  IF t.raised /\ (resp.transport # "ok" \/ resp.status >= 400)
        THEN Returned(WeatherError)
        ELSE t

\* Lines 60-74: try / except Exception.
get_weather_uncached(resp) ==
    LET t == get_weather_try(resp)
    IN  IF t.raised THEN Returned(WeatherError) ELSE t

(***************************************************************************)
(* app.py line 48, @st.cache_data(ttl=600): entries are keyed by the       *)
(* arguments, stamped when stored, and no longer served once ttl has       *)
(* passed since then; serving an entry does not restamp it.                *)
(***************************************************************************)
TTL == 600

CacheEntry(stored_at, value) == [stored_at |-> stored_at, value |-> value]

CacheFresh_sliding(entry, now) == now - entry.stored_at < TTL + TTL

CacheFresh(entry, now) == now - entry.stored_at < TTL

\* One call get_weather(lat, lon) at time `now`, the service answering resp.
\* Yields the new cache, the outcome, and whether a request went out.
get_weather(cache, lat, lon, now, resp) ==
    LET key == <<lat, lon>>
        hit == cache[key] # None /\ CacheFresh(The(cache[key]), now)
        out == get_weather_uncached(resp)
    IN  IF hit
        THEN [cache |-> cache, out |-> Returned(The(cache[key]).value),
              requested |-> FALSE]
        ELSE [cache |-> IF out.raised THEN cache
                        ELSE [cache EXCEPT
                                 ![key] = Some(CacheEntry(now, The(out.value)))],
              out |-> out, requested |-> TRUE]

(***************************************************************************)
(* The store and a SQLAlchemy session on it.  `store` is what is           *)
(* committed; rows added in a session stay in its transaction (`new`       *)
(* before a flush, `flushed` after it) until commit makes them part of the *)
(* store or rollback discards them.                                        *)
(***************************************************************************)
Rows(reservoirs, realtime_data) ==
    [reservoirs |-> reservoirs, realtime_data |-> realtime_data]

NoRows == Rows({}, {})

Join(a, b) ==
    Rows(a.reservoirs \cup b.reservoirs, a.realtime_data \cup b.realtime_data)

\* app.py get_session (19-24), init_db.py lines 51-52.
get_session(store) ==
    [store |-> store, new |-> NoRows, flushed |-> NoRows, state |-> "open"]

session_add_all(s, rows) == [s EXCEPT !.new = Join(@, rows)]

\* A flush that makes the rows durable at once.
session_flush_autocommit(s) ==
    [s EXCEPT !.store = Join(@, s.new), !.new = NoRows]

\* flush: the INSERTs are sent inside the open transaction.
session_flush(s) == [s EXCEPT !.flushed = Join(@, s.new), !.new = NoRows]

\* A commit that replaces the tables' rows by the session's.
session_commit_replace(s) ==
    [s EXCEPT !.store = Join(s.flushed, s.new),
              !.new = NoRows, !.flushed = NoRows]

session_commit(s) ==
    [s EXCEPT !.store = Join(@, Join(s.flushed, s.new)),
              !.new = NoRows, !.flushed = NoRows]

session_rollback(s) == [s EXCEPT !.new = NoRows, !.flushed = NoRows]

\* close releases the connection; an open transaction is rolled back.
session_close(s) ==
    [s EXCEPT !.new = NoRows, !.flushed = NoRows, !.state = "closed"]

\* The id the store generates for the next row of a table.
NextId(rows) == IF rows = {} THEN 1 ELSE Max({r.id : r \in rows}) + 1

(***************************************************************************)
(* init_db.py, init_database.  fail_at names the store call that raises,   *)
(* if any.                                                                 *)
(***************************************************************************)
SeedFailures ==
    {"none", "query", "add_reservoirs", "flush", "add_data", "commit"}

SeedRun(exit, session) == [exit |-> exit, session |-> session]

\* Lines 80-82: except Exception -> rollback.
init_database_except(s) == SeedRun("failed", session_rollback(s))

\* Lines 54-82: the try block with its handler.
init_database_try(s0, now, fail_at) ==
    IF fail_at = "query"
    THEN init_database_except(s0)
    ELSE IF Cardinality(s0.store.reservoirs) > 0
    THEN SeedRun("skipped", s0)
    ELSE LET s1 == session_add_all(s0, Rows(SeedReservoirs, {}))
             s2 == session_flush(s1)
             s3 == session_add_all(s2, Rows({}, SeedData(now)))
             s4 == session_commit(s3)
         IN  IF fail_at = "add_reservoirs" THEN init_database_except(s0)
             ELSE IF fail_at = "flush" THEN init_database_except(s1)
             ELSE IF fail_at = "add_data" THEN init_database_except(s2)
             ELSE IF fail_at = "commit" THEN init_database_except(s3)
             ELSE SeedRun("seeded", s4)

\* Lines 83-84: finally -> close.
init_database_finally(run) == [run EXCEPT !.session = session_close(@)]

init_database(store, now, fail_at) ==
    init_database_finally(init_database_try(get_session(store), now, fail_at))

(***************************************************************************)
(* app.py, get_reservoirs_with_latest_data.  The queries carry no          *)
(* tie-break: among rows with equal timestamps the store returns any, so   *)
(* the operators yield the set of results the store may produce.           *)
(***************************************************************************)
DataOf(store, reservoir_id) ==
    {d \in store.realtime_data : d.reservoir_id = reservoir_id}

\* Line 36 and line 301: .filter(RealtimeData.reservoir_id == ...)
\* .order_by(asc(timestamp)).first()
LatestOf_asc(rows) ==
    IF rows = {} THEN {None}
    ELSE {Some(d) : d \in {x \in rows :
                              \A y \in rows : x.timestamp <= y.timestamp}}

\* Lines 34-39: .order_by(desc(timestamp)).first()
LatestOf(rows) ==
    IF rows = {} THEN {None}
    ELSE {Some(d) : d \in {x \in rows :
                              \A y \in rows : y.timestamp <= x.timestamp}}

\* session.query(Reservoir).all(), in the store's own (id) order.
RECURSIVE ReservoirList(_)
ReservoirList(reservoirs) ==
    IF reservoirs = {} THEN <<>>
    ELSE LET first == CHOOSE r \in reservoirs :
                         \A o \in reservoirs : r.id <= o.id
         IN  <<first>> \o ReservoirList(reservoirs \ {first})

Item(reservoir, latest_data) ==
    [reservoir |-> reservoir, latest_data |-> latest_data]

RECURSIVE LatestLoop(_, _, _)
LatestLoop(store, reservoirs, n) ==
    IF n = 0 THEN {<<>>}
    ELSE {Append(result, Item(reservoirs[n], latest_data)) :
            result \in LatestLoop(store, reservoirs, n - 1),
            latest_data \in LatestOf(DataOf(store, reservoirs[n].id))}

get_reservoirs_with_latest_data(store) ==
    LET reservoirs == ReservoirList(store.reservoirs)
    IN  LatestLoop(store, reservoirs, Len(reservoirs))

\* Lines 299-304: .order_by(asc(timestamp)).all(), every order the store
\* may return.
RECURSIVE HistoryOf(_)
HistoryOf(rows) ==
    IF rows = {} THEN {<<>>}
    ELSE LET earliest == {x \in rows :
                             \A y \in rows : x.timestamp <= y.timestamp}
         IN  UNION {{<<d>> \o rest : rest \in HistoryOf(rows \ {d})} :
                       d \in earliest}

(***************************************************************************)
(* app.py, main, lines 338-366: the report over a non-empty history.       *)
(* change_text is the string shown after the trend; change_value exists    *)
(* only on the branch that assigns it.                                     *)
(***************************************************************************)
ChangeText(kind, sign, value) == [kind |-> kind, sign |-> sign, value |-> value]

\* f"+{change_value:.1f}" and f"{change_value:.1f}": sign, then magnitude.
Formatted(sign, x) == ChangeText("number", sign, Abs(Format1f(x)))

\* "N/A（数据不足）"
InsufficientData == ChangeText("insufficient_data", "", 0)

Trend(trend, change_value, change_text) ==
    [trend |-> trend, change_value |-> change_value,
     change_text |-> change_text]

\* The difference taken the other way round.
trend_of_reversed(df_report) ==
    LET n == Len(df_report)
    IN  IF n >= 2
        THEN LET change_value == df_report[n - 1].water_level
                                   - df_report[n].water_level
             IN  IF change_value > 0
                 THEN Trend("rising", Some(change_value),
                            Formatted("+", change_value))
                 ELSE IF change_value < 0
                 THEN Trend("falling", Some(change_value),
                            Formatted("-", change_value))
                 ELSE Trend("flat", Some(change_value),
                            ChangeText("number", "", 0))
        ELSE Trend("indeterminate", None, InsufficientData)

\* Lines 350-366.
trend_of(df_report) ==
    LET n == Len(df_report)
    IN  IF n >= 2
        THEN LET latest_water_level == df_report[n].water_level
                 previous_water_level == df_report[n - 1].water_level
                 change_value == latest_water_level - previous_water_level
             IN  IF change_value > 0
                 THEN Trend("rising", Some(change_value),
                            Formatted("+", change_value))
                 ELSE IF change_value < 0
                 THEN Trend("falling", Some(change_value),
                            Formatted("-", change_value))
                 ELSE Trend("flat", Some(change_value),
                            ChangeText("number", "", 0))
        ELSE Trend("indeterminate", None, InsufficientData)

\* Lines 338-384.
report_of(df_report) ==
    LET n == Len(df_report)
        levels == {df_report[i].water_level : i \in 1..n}
        latest_record == df_report[n]
        t == trend_of(df_report)
    IN  [latest_time |-> latest_record.timestamp,
         latest_water_level |-> Format1f(latest_record.water_level),
         max_water_level |-> Format1f(Max(levels)),
         min_water_level |-> Format1f(Min(levels)),
         latest_storage |-> Format1f(latest_record.storage),
         trend |-> t.trend, change_value |-> t.change_value,
         change_text |-> t.change_text,
         rows |-> n]

(***************************************************************************)
(* app.py, create_map.  wx carries the weather state through the loop:     *)
(* the cache, the request count and the last fetch per key.                *)
(***************************************************************************)
Weather(cache, requests, fetched) ==
    [cache |-> cache, requests |-> requests, fetched |-> fetched]

Fetch(at, out) == [at |-> at, out |-> out]

\* The weather state after a get_weather call that yielded g.
weather_after(wx, lat, lon, now, g) ==
    Weather(g.cache,
            IF g.requested THEN wx.requests + 1 ELSE wx.requests,
            IF g.requested
            THEN [wx.fetched EXCEPT ![<<lat, lon>>] = Some(Fetch(now, g.out))]
            ELSE wx.fetched)

\* Lines 131-139: the temperature line of the popup; None shows 暂无数据.
temperature_line(weather) ==
    IF weather.variant = "error" THEN None ELSE weather.temperature

Marker(name, color, tooltip_alert, over_value, temperature) ==
    [name |-> name, color |-> color, tooltip_alert |-> tooltip_alert,
     over_value |-> over_value, temperature |-> temperature]

\* A marker that is blue whatever the evaluator said.
marker_of_always_blue(item, weather) ==
    LET c == check_flood_limit(item.reservoir, item.latest_data)
    IN  Marker(item.reservoir.name, "blue", FALSE,
               IF item.latest_data # None /\ c.is_over_limit
               THEN c.over_value ELSE None,
               temperature_line(weather))

\* Lines 108-157, one pass of the loop, the weather already fetched.
marker_of(item, weather) ==
    LET c == check_flood_limit(item.reservoir, item.latest_data)
    IN  Marker(item.reservoir.name,
               IF c.is_over_limit THEN "red" ELSE "blue",
               c.is_over_limit,
               IF item.latest_data # None /\ c.is_over_limit
               THEN c.over_value ELSE None,
               temperature_line(weather))

RECURSIVE create_map_loop(_, _, _, _, _)
create_map_loop(reservoirs_data, n, wx, now, resp) ==
    IF n = 0 THEN [markers |-> <<>>, wx |-> wx]
    ELSE LET before == create_map_loop(reservoirs_data, n - 1, wx, now, resp)
             item == reservoirs_data[n]
             g == get_weather(before.wx.cache, item.reservoir.latitude,
                              item.reservoir.longitude, now, resp)
             weather == The(g.out.value)
         IN  [markers |-> Append(before.markers, marker_of(item, weather)),
              wx |-> weather_after(before.wx, item.reservoir.latitude,
                                   item.reservoir.longitude, now, g)]

create_map(reservoirs_data, wx, now, resp) ==
    create_map_loop(reservoirs_data, Len(reservoirs_data), wx, now, resp)

(***************************************************************************)
(* app.py, main: one render cycle.                                         *)
(***************************************************************************)
View(alerts, form_error, success, notice, markers, report) ==
    [alerts |-> alerts, form_error |-> form_error, success |-> success,
     notice |-> notice, markers |-> markers, report |-> report]

NoView == View(<<>>, FALSE, FALSE, "none", <<>>, None)

Run(exit, session, v, calls, wx) ==
    [exit |-> exit, session |-> session, view |-> v, check_calls |-> calls,
     wx |-> wx]

Alert(name, current_level, over_value) ==
    [name |-> name, current_level |-> current_level,
     over_value |-> over_value]

\* Lines 182-192: the alert list.
RECURSIVE alert_reservoirs(_, _)
alert_reservoirs(reservoirs_data, n) ==
    IF n = 0 THEN <<>>
    ELSE LET before == alert_reservoirs(reservoirs_data, n - 1)
             item == reservoirs_data[n]
             c == check_flood_limit(item.reservoir, item.latest_data)
         IN  IF c.is_over_limit
             THEN Append(before,
                         Alert(item.reservoir.name,
                               The(item.latest_data).water_level,
                               c.over_value))
             ELSE before

\* Calls of check_flood_limit per reservoir id after `passes` loops over
\* reservoirs_data (lines 183-186, and 107-112 inside create_map).
CallsAfter(reservoirs_data, passes) ==
    [id \in {reservoirs_data[i].reservoir.id : i \in DOMAIN reservoirs_data}
        |-> passes]

\* Line 228: name -> id.
reservoir_options(reservoirs_data) ==
    [name \in {reservoirs_data[i].reservoir.name : i \in DOMAIN reservoirs_data}
        |-> (CHOOSE i \in DOMAIN reservoirs_data :
                reservoirs_data[i].reservoir.name = name)]

\* What st.selectbox can return: one of the options, None when there is none.
Selectable(reservoirs_data) ==
    IF reservoirs_data = <<>> THEN {None}
    ELSE {Some(reservoirs_data[i].reservoir.name) :
             i \in DOMAIN reservoirs_data}

\* Lines 262 and 295: `selected_reservoir_name and reservoir_options`.
Selected(selected_reservoir_name, reservoirs_data) ==
    /\ selected_reservoir_name # None
    /\ The(selected_reservoir_name) # ""
    /\ reservoirs_data # <<>>

SelectedId(selected_reservoir_name, reservoirs_data) ==
    reservoirs_data[reservoir_options(reservoirs_data)
                       [The(selected_reservoir_name)]].reservoir.id

MainFaults == {"none", "query", "commit", "render"}

\* The widget values of one run (lines 231-259).
Widgets(submit_button, water_level_input, storage_input, selected) ==
    [submit_button |-> submit_button, water_level_input |-> water_level_input,
     storage_input |-> storage_input, selected |-> selected]

\* What one run of main() is given: the widget values, the store call that
\* raises (if any), and the weather service's answer to a request.
Input(w, fault, resp) ==
    [submit_button |-> w.submit_button,
     water_level_input |-> w.water_level_input,
     storage_input |-> w.storage_input, selected |-> w.selected,
     fault |-> fault, resp |-> resp]

\* A submission that skips the check of line 262.
submit_valid_unchecked(inp, reservoirs_data) == inp.submit_button

\* Line 261-262.
submit_valid(inp, reservoirs_data) ==
    inp.submit_button /\ Selected(inp.selected, reservoirs_data)

\* The reservoir a submission writes to; none is selected when the check of
\* line 262 is skipped on an empty selection.
TargetId(inp, reservoirs_data) ==
    IF Selected(inp.selected, reservoirs_data)
    THEN SelectedId(inp.selected, reservoirs_data)
    ELSE 0

\* Lines 176-404, the try block.  reservoirs_data and history_data are what
\* the two queries returned.
main_try(s0, now, wx, inp, reservoirs_data, history_data) ==
    IF inp.fault = "query"
    THEN Run("error", s0, NoView, CallsAfter(<<>>, 0), wx)
    ELSE
    LET reservoir_count == Len(reservoirs_data)
        alerts == alert_reservoirs(reservoirs_data, reservoir_count)
        once == CallsAfter(reservoirs_data, 1)
        twice == CallsAfter(reservoirs_data, 2)
    IN  IF submit_valid(inp, reservoirs_data)
        THEN LET new_data ==
                     RealtimeData(NextId(s0.store.realtime_data),
                                  TargetId(inp, reservoirs_data), now,
                                  inp.water_level_input, inp.storage_input)
                 s1 == session_add_all(s0, Rows({}, {new_data}))
             IN  IF inp.fault = "commit"
                 THEN Run("error", s1,
                          View(alerts, FALSE, FALSE, "none", <<>>, None),
                          once, wx)
                 ELSE Run("rerun", session_commit(s1),
                          View(alerts, FALSE, TRUE, "none", <<>>, None),
                          once, wx)
        ELSE
        LET form_error == inp.submit_button
        IN  IF reservoir_count > 0
            THEN LET m == create_map(reservoirs_data, wx, now, inp.resp)
                 IN  IF inp.fault = "render"
                     THEN Run("error", s0,
                              View(alerts, form_error, FALSE, "none", <<>>,
                                   None),
                              twice, m.wx)
                     ELSE IF Selected(inp.selected, reservoirs_data)
                     THEN IF history_data # <<>>
                          THEN Run("normal", s0,
                                   View(alerts, form_error, FALSE, "none",
                                        m.markers,
                                        Some(report_of(history_data))),
                                   twice, m.wx)
                          ELSE Run("normal", s0,
                                   View(alerts, form_error, FALSE,
                                        "no_history", m.markers, None),
                                   twice, m.wx)
                     ELSE Run("normal", s0,
                              View(alerts, form_error, FALSE,
                                   "select_reservoir", m.markers, None),
                              twice, m.wx)
            ELSE Run("normal", s0,
                     View(alerts, form_error, FALSE, "no_reservoirs", <<>>,
                          None),
                     once, wx)

\* A run whose session is closed only at the end of the block.
main_finally_leaky(run) ==
    IF run.exit = "normal"
    THEN [run EXCEPT !.session = session_close(@)]
    ELSE run

\* Lines 406-408: finally -> close.
main_finally(run) == [run EXCEPT !.session = session_close(@)]

main(store, now, wx, inp, reservoirs_data, history_data) ==
    main_finally(main_try(get_session(store), now, wx, inp, reservoirs_data,
                          history_data))

(***************************************************************************)
(* Bounds of the model and the inputs it enumerates.                       *)
(***************************************************************************)
\* Last clock value of Spec.
MaxClock == 1

\* Successful form submissions in one behaviour of Spec.
MaxSubmits == 1

\* Direct get_weather calls in one behaviour of SpecWeather.
MaxCalls == 3

\* Last clock value of SpecWeather.
MaxTime == 1200

\* Rows of realtime_data in the stores of SpecQuery.
MaxRows == 3

\* Length of the histories of SpecReport.
MaxHistory == 3

\* Clock advances of SpecWeather: one short of the ttl, and the ttl.
Steps == {TTL - 1, TTL}

\* st.number_input(min_value=0.0, max_value=500.0, value=100.0): the values
\* a user submits, here a level above every seed reservoir's limit.
FormLevels == {280000}

\* st.number_input(value=50.0)
FormStorages == {50000}

\* The service as one render cycle finds it: down, or up.
PageResponses ==
    {Response("network_error", 0, NoBody),
     Response("ok", 200, Body("object", "object", Some(21000), Some(1)))}

Coords == {<<r.latitude, r.longitude>> : r \in SeedReservoirs}

\* Arguments of the direct get_weather calls.
CallCoords == {<<r1.latitude, r1.longitude>>, <<r2.latitude, r2.longitude>>}

\* Arguments of check_flood_limit called on its own.
FloodLimits == {None, Some(0), Some(145000), Some(157000), Some(275000)}

FloodLevels ==
    {0, 1, 4, 5, 6, 15, 25, 144990, 145000, 145001, 145004, 145005, 145006,
     145015, 145025, 156995, 157000, 157005, 158500, 270000, 275000, 275010}

FloodArgs ==
    [reservoir : {Reservoir(1, "r", 111003, 30823, limit, None) :
                     limit \in FloodLimits},
     latest_data : {None} \cup {Some(RealtimeData(1, 1, 0, level, 0)) :
                                   level \in FloodLevels}]

\* Stores for get_reservoirs_with_latest_data called on its own: two
\* reservoirs and up to MaxRows readings, so a reservoir may have none, one,
\* or several, with equal or different timestamps.
QueryRows ==
    [reservoir_id : {r1.id, r2.id}, timestamp : {0, 1},
     water_level : {0, 150000}]

QueryStores ==
    UNION {{Rows({r1, r2},
                 {RealtimeData(i, f[i].reservoir_id, f[i].timestamp,
                               f[i].water_level, 0) : i \in 1..n}) :
              f \in [1..n -> QueryRows]} : n \in 0..MaxRows}

\* Histories for the report computed on its own: ascending by timestamp.
ReportRows == [timestamp : {0, 1}, water_level : {10000, 10040, 12500}]

ReportHistories ==
    UNION {{[i \in 1..n |-> RealtimeData(i, 1, f[i].timestamp,
                                         f[i].water_level, 50000)] :
              f \in {g \in [1..n -> ReportRows] :
                        \A i \in 1..(n - 1) :
                            g[i].timestamp <= g[i + 1].timestamp}} :
           n \in 1..MaxHistory}

(***************************************************************************)
(* Initial states.                                                         *)
(***************************************************************************)
LastRun(program, exit, session) ==
    [program |-> program, exit |-> exit, session |-> session]

NoWidgets == Widgets(FALSE, 100000, 50000, None)

InitApp ==
    /\ db = NoRows
    /\ clock = 0
    /\ last_run = LastRun("none", "none", "none")
    /\ widgets = NoWidgets
    /\ view = NoView
    /\ check_calls = CallsAfter(<<>>, 0)
    /\ submits = 0

InitWeather ==
    /\ weather_cache = [key \in Coords |-> None]
    /\ requests_sent = 0
    /\ last_fetch = [key \in Coords |-> None]
    /\ last_call = None
    /\ calls_made = 0

Init ==
    /\ InitApp
    /\ InitWeather
    /\ args = None
    /\ ret = None

InitFlood ==
    /\ InitApp
    /\ InitWeather
    /\ args \in FloodArgs
    /\ ret = None

InitQuery ==
    /\ InitApp
    /\ InitWeather
    /\ args \in QueryStores
    /\ ret = None

InitReport ==
    /\ InitApp
    /\ InitWeather
    /\ args \in ReportHistories
    /\ ret = None

(***************************************************************************)
(* Actions.                                                                *)
(***************************************************************************)
WeatherNow == Weather(weather_cache, requests_sent, last_fetch)

SetWeather(wx) ==
    /\ weather_cache' = wx.cache
    /\ requests_sent' = wx.requests
    /\ last_fetch' = wx.fetched

\* The run gets as far as create_map: the first query went through, no
\* valid submission ends the run early, and there are reservoirs to show.
ReachesMap(w, fault, reservoirs_data) ==
    /\ fault # "query"
    /\ ~submit_valid(w, reservoirs_data)
    /\ reservoirs_data # <<>>

\* create_map sends a request: some reservoir's weather is not served from
\* the cache.
SendsRequest(reservoirs_data, resp) ==
    \E i \in DOMAIN reservoirs_data :
        get_weather(weather_cache, reservoirs_data[i].reservoir.latitude,
                    reservoirs_data[i].reservoir.longitude, clock,
                    resp).requested

\* The store and render calls that can raise in a run with these widgets.
FaultsOf(w, reservoirs_data) ==
    {fault \in MainFaults :
        /\ fault = "commit" => submit_valid(w, reservoirs_data)
        /\ fault = "render" => ReachesMap(w, fault, reservoirs_data)}

\* One run of main() with the given form values.  The weather service's
\* answer and the history query's result are enumerated only for a run that
\* reads them.
Main(submit_button, water_level_input, storage_input) ==
    \E reservoirs_data \in get_reservoirs_with_latest_data(db) :
    \E selected \in Selectable(reservoirs_data) :
    \E w \in {Widgets(submit_button, water_level_input, storage_input,
                     selected)} :
    \E fault \in FaultsOf(w, reservoirs_data) :
    \E resp \in {r \in PageResponses :
                    \/ /\ ReachesMap(w, fault, reservoirs_data)
                       /\ SendsRequest(reservoirs_data, r)
                    \/ r = CHOOSE any \in PageResponses : TRUE} :
    \E history_data \in
          IF /\ ReachesMap(w, fault, reservoirs_data)
             /\ fault # "render"
             /\ Selected(selected, reservoirs_data)
          THEN HistoryOf(DataOf(db, SelectedId(selected, reservoirs_data)))
          ELSE {<<>>} :
    \E run \in {main(db, clock, WeatherNow, Input(w, fault, resp),
                    reservoirs_data, history_data)} :
        /\ run.exit = "rerun" => submits < MaxSubmits
        /\ db' = run.session.store
        /\ last_run' = LastRun("main", run.exit, run.session.state)
        /\ widgets' = w
        /\ view' = run.view
        /\ check_calls' = run.check_calls
        /\ submits' = IF run.exit = "rerun" THEN submits + 1 ELSE submits
        /\ SetWeather(run.wx)
        /\ UNCHANGED <<clock, last_call, calls_made, callVars>>

\* A page load or widget change: the form is not submitted and holds its
\* default values.
Render == Main(FALSE, 100000, 50000)

\* The form is submitted.
Submit ==
    \E water_level_input \in FormLevels, storage_input \in FormStorages :
        Main(TRUE, water_level_input, storage_input)

\* One run of init_db.py.
InitDatabase ==
    \E fail_at \in SeedFailures :
    \E run \in {init_database(db, clock, fail_at)} :
        /\ db' = run.session.store
        /\ last_run' = LastRun("init_db", run.exit, run.session.state)
        /\ UNCHANGED <<clock, widgets, view, check_calls, submits,
                       last_call, calls_made, weatherVars, callVars>>

\* Time passes.
Tick ==
    /\ clock < MaxClock
    /\ clock' = clock + 1
    /\ UNCHANGED <<appVars, weatherVars, last_call, calls_made, callVars>>

Next == Render \/ Submit \/ InitDatabase \/ Tick

Spec == Init /\ [][Next]_vars

\* A direct call: its arguments, its time, the service's answer to a request
\* made then, what the caller got, and whether a request went out.
Call(lat, lon, at, resp, out, requested) ==
    [lat |-> lat, lon |-> lon, at |-> at, resp |-> resp, out |-> out,
     requested |-> requested]

\* get_weather called directly.
GetWeather ==
    /\ calls_made < MaxCalls
    /\ \E key \in CallCoords, resp \in Responses :
       \E g \in {get_weather(weather_cache, key[1], key[2], clock, resp)} :
              /\ SetWeather(weather_after(WeatherNow, key[1], key[2], clock, g))
              /\ last_call' = Some(Call(key[1], key[2], clock, resp, g.out,
                                        g.requested))
    /\ calls_made' = calls_made + 1
    /\ UNCHANGED <<appVars, clock, callVars>>

Advance ==
    \E d \in Steps :
        /\ clock + d <= MaxTime
        /\ clock' = clock + d
        /\ UNCHANGED <<appVars, weatherVars, last_call, calls_made, callVars>>

NextWeather == GetWeather \/ Advance

SpecWeather == Init /\ [][NextWeather]_vars

Idle == UNCHANGED <<appVars, weatherVars, clock, last_call, calls_made, args>>

\* check_flood_limit called directly.
CheckFloodLimit ==
    /\ ret = None
    /\ ret' = Some(check_flood_limit(args.reservoir, args.latest_data))
    /\ Idle

NextFlood == CheckFloodLimit

SpecFlood == InitFlood /\ [][NextFlood]_vars

\* get_reservoirs_with_latest_data called directly.
Query ==
    /\ ret = None
    /\ \E result \in get_reservoirs_with_latest_data(args) :
          ret' = Some(result)
    /\ Idle

NextQuery == Query

SpecQuery == InitQuery /\ [][NextQuery]_vars

\* The report of lines 338-366 computed directly.
Report ==
    /\ ret = None
    /\ ret' = Some(report_of(args))
    /\ Idle

NextReport == Report

SpecReport == InitReport /\ [][NextReport]_vars

(***************************************************************************)
(* Claims.                                                                 *)
(***************************************************************************)

\* v is x rounded to two decimals: a multiple of 0.01, at most 0.005 from x,
\* the even multiple when x lies halfway.
IsRoundedTo2(v, x) ==
    /\ v % 10 = 0
    /\ Abs(v - x) <= 5
    /\ Abs(v - x) = 5 => (Abs(v) \div 10) % 2 = 0

\* C1: check_flood_limit returns (True, round(water_level - limit, 2)) exactly
\* when the limit is present, a reading is present and water_level > limit;
\* in every other case (equality included) it returns (False, None).
C1_FloodLimit ==
    ret # None =>
        LET res == The(ret)
            over == /\ args.reservoir.flood_limit_level # None
                    /\ args.latest_data # None
                    /\ The(args.latest_data).water_level
                          > The(args.reservoir.flood_limit_level)
        IN  IF over
            THEN /\ res.is_over_limit = TRUE
                 /\ res.over_value # None
                 /\ IsRoundedTo2(The(res.over_value),
                                 The(args.latest_data).water_level
                                   - The(args.reservoir.flood_limit_level))
            ELSE res = FloodResult(FALSE, None)

\* A call over the limit by 0.015, reported as 0.02.
C1_Witness ==
    /\ ret = Some(FloodResult(TRUE, Some(20)))
    /\ args.reservoir.flood_limit_level = Some(145000)
    /\ args.latest_data # None
    /\ The(args.latest_data).water_level = 145015

\* The step is a direct get_weather call.
IsCall == calls_made' = calls_made + 1

\* C2 as stated: a call for a pair made within 600 of an earlier call for the
\* same pair returns that call's result and sends no request; a call after
\* the entry's TTL has run out sends one.
C2_Original ==
    [][IsCall =>
         LET c == The(last_call')
             f == last_fetch[<<c.lat, c.lon>>]
         IN  /\ (/\ last_call # None
                 /\ The(last_call).lat = c.lat
                 /\ The(last_call).lon = c.lon
                 /\ c.at - The(last_call).at < TTL)
                   => (/\ c.out = The(last_call).out
                       /\ requests_sent' = requests_sent)
             /\ (f # None /\ c.at - The(f).at >= TTL)
                   => requests_sent' = requests_sent + 1]_vars

\* C2, amended: the window runs from the call that sent the request.  A call
\* less than 600 after the last request for the same pair returns that
\* request's outcome (data or error) and sends nothing; any other call sends
\* exactly one request.
C2_CacheWindow ==
    [][IsCall =>
         LET c == The(last_call')
             f == last_fetch[<<c.lat, c.lon>>]
         IN  IF f # None /\ c.at - The(f).at < TTL
             THEN /\ c.out = The(f).out
                  /\ ~c.requested
                  /\ requests_sent' = requests_sent
             ELSE /\ c.requested
                  /\ requests_sent' = requests_sent + 1]_vars

\* A call served from a cached error, 599 after the request that failed.
C2_Witness ==
    /\ last_call # None
    /\ ~The(last_call).requested
    /\ The(last_call).out = Returned(WeatherError)
    /\ LET c == The(last_call)
       IN  /\ last_fetch[<<c.lat, c.lon>>] # None
           /\ c.at - The(last_fetch[<<c.lat, c.lon>>]).at = TTL - 1

\* The failures the claim lists, read off the response alone.
TransportFailed(resp) == resp.transport \in {"network_error", "timeout"}

NonSuccessStatus(resp) == resp.transport = "ok" /\ resp.status >= 400

NotJsonObject(resp) == resp.body.syntax \in {"not_json", "array"}

\* A JSON object without a current_weather object in it.
LacksCurrentWeather(resp) ==
    resp.body.syntax = "object" /\ resp.body.current_weather # "object"

CallFailed(resp) ==
    \/ TransportFailed(resp)
    \/ NonSuccessStatus(resp)
    \/ NotJsonObject(resp)
    \/ LacksCurrentWeather(resp)

\* C3 as stated: get_weather never raises; on any failure of the external
\* call (malformed payload included) it returns the error variant, and the
\* temperature/condition variant only when the call succeeded.
C3_Original ==
    (last_call # None /\ The(last_call).requested) =>
        LET c == The(last_call)
        IN  /\ ~c.out.raised
            /\ CallFailed(c.resp) => c.out = Returned(WeatherError)
            /\ ~CallFailed(c.resp) =>
                  c.out = Returned(WeatherData(c.resp.body.temperature,
                                               c.resp.body.weathercode))

\* C3, amended: get_weather never raises.  It returns the error variant on a
\* transport failure, a non-success status, a body that is no JSON object,
\* and a current_weather member that is null.  A 2xx JSON object without a
\* current_weather member is not treated as a failure: the
\* temperature/condition variant comes back with both values None; fields
\* missing from current_weather come back None likewise.
C3_NeverRaises ==
    (last_call # None /\ The(last_call).requested) =>
        LET c == The(last_call)
            b == c.resp.body
        IN  /\ ~c.out.raised
            /\ IF \/ TransportFailed(c.resp)
                  \/ NonSuccessStatus(c.resp)
                  \/ NotJsonObject(c.resp)
                  \/ b.current_weather = "null"
               THEN c.out = Returned(WeatherError)
               ELSE IF b.current_weather = "absent"
               THEN c.out = Returned(WeatherData(None, None))
               ELSE c.out = Returned(WeatherData(b.temperature, b.weathercode))

\* A request answered 200 with a JSON array: the error variant comes back.
C3_Witness ==
    /\ last_call # None
    /\ The(last_call).requested
    /\ The(last_call).resp.status = 200
    /\ The(last_call).resp.body.syntax = "array"
    /\ The(last_call).out = Returned(WeatherError)

\* C4: get_reservoirs_with_latest_data returns one item per reservoir of the
\* store; the item's reading is None exactly when the reservoir has no
\* readings, and otherwise a reading of that reservoir whose timestamp no
\* other reading of that reservoir exceeds.
C4_Latest ==
    ret # None =>
        LET result == The(ret)
        IN  /\ Len(result) = Cardinality(args.reservoirs)
            /\ \A reservoir \in args.reservoirs :
                  \E i \in DOMAIN result : result[i].reservoir = reservoir
            /\ \A i \in DOMAIN result :
                  LET own == {d \in args.realtime_data :
                                 d.reservoir_id = result[i].reservoir.id}
                      latest_data == result[i].latest_data
                  IN  /\ (latest_data = None) <=> (own = {})
                      /\ latest_data # None =>
                            /\ The(latest_data) \in own
                            /\ \A d \in own :
                                  d.timestamp <= The(latest_data).timestamp

\* r1 has an older and a newer reading and gets the newer; r2 has none and
\* gets None.
C4_Witness ==
    /\ ret # None
    /\ Len(The(ret)) = 2
    /\ The(ret)[2].latest_data = None
    /\ The(ret)[1].latest_data # None
    /\ The(The(ret)[1].latest_data).timestamp = 1
    /\ \E d \in args.realtime_data :
          d.reservoir_id = r1.id /\ d.timestamp = 0

\* C5: for a history of length >= 2 the change is the last water level minus
\* the one before it, and the trend is rising, falling or flat as the change
\* is positive, negative or zero; for length 1 the trend is indeterminate,
\* there is no change value, and the text shown is the insufficient-data
\* text, which is not the text of any number.
C5_Trend ==
    ret # None =>
        LET report == The(ret)
            n == Len(args)
        IN  IF n >= 2
            THEN LET change == args[n].water_level - args[n - 1].water_level
                 IN  /\ report.change_value = Some(change)
                     /\ report.trend = IF change > 0 THEN "rising"
                                       ELSE IF change < 0 THEN "falling"
                                       ELSE "flat"
                     /\ report.change_text.kind = "number"
            ELSE /\ report.trend = "indeterminate"
                 /\ report.change_value = None
                 /\ report.change_text.kind = "insufficient_data"
                 /\ report.change_text # ChangeText("number", "", 0)

\* [10.0, 12.5] is rising by 2.5.
C5_Witness ==
    /\ ret # None
    /\ Len(args) = 2
    /\ args[1].water_level = 10000
    /\ args[2].water_level = 12500
    /\ The(ret).trend = "rising"
    /\ The(ret).change_value = Some(2500)

\* The step is a run of main(); a run of init_database().
IsMain == last_run'.program = "main" /\ clock' = clock

IsSeed == last_run'.program = "init_db" /\ clock' = clock

\* C6: a submission with no reservoir selected mutates nothing, and the run
\* shows the inline error when it gets as far as the form.
C6_InvalidSubmit ==
    [][(/\ IsMain
        /\ widgets'.submit_button
        /\ widgets'.selected = None)
          => /\ db' = db
             /\ last_run'.exit # "rerun"
             /\ ~view'.success
             /\ last_run'.exit = "normal" => view'.form_error]_vars

\* A submission on the empty store that showed the inline error.
C6_Witness ==
    /\ last_run = LastRun("main", "normal", "closed")
    /\ widgets.submit_button
    /\ widgets.selected = None
    /\ view.form_error
    /\ db = NoRows

SeedRows == Rows(SeedReservoirs, UNION {SeedData(t) : t \in 0..MaxClock})

\* C7: a seed run either commits every seed row or leaves the store as it
\* was; after a failed run on a store without reservoirs no seed row is in
\* the store, and the store never holds some seed rows without the others.
C7_SeedAtomic ==
    [][IsSeed =>
         /\ last_run'.exit = "seeded" =>
               /\ db.reservoirs = {}
               /\ \E t \in 0..MaxClock :
                     db' = Join(db, Rows(SeedReservoirs, SeedData(t)))
         /\ last_run'.exit # "seeded" => db' = db
         /\ (last_run'.exit = "failed" /\ db.reservoirs = {}) =>
               /\ db'.reservoirs \cap SeedRows.reservoirs = {}
               /\ db'.realtime_data \cap SeedRows.realtime_data = {}
         /\ \/ /\ db'.reservoirs = {}
               /\ db'.realtime_data = {}
            \/ /\ db'.reservoirs = SeedReservoirs
               /\ \E t \in 0..MaxClock :
                     SeedData(t) \subseteq db'.realtime_data]_vars

\* A seed run failed and the store is empty.
C7_Witness ==
    /\ last_run = LastRun("init_db", "failed", "closed")
    /\ db = NoRows

\* C8: no step removes or changes a row; a successful submission adds exactly
\* one reading, for the selected reservoir, with the submitted values; a run
\* of main() that is no successful submission leaves the store unchanged.
C8_AppendOnly ==
    [][/\ db.reservoirs \subseteq db'.reservoirs
       /\ db.realtime_data \subseteq db'.realtime_data
       /\ IsMain =>
             IF last_run'.exit = "rerun"
             THEN /\ widgets'.submit_button
                  /\ db'.reservoirs = db.reservoirs
                  /\ \E d \in db'.realtime_data \ db.realtime_data :
                        /\ db'.realtime_data = db.realtime_data \cup {d}
                        /\ \E reservoir \in db.reservoirs :
                              /\ Some(reservoir.name) = widgets'.selected
                              /\ d.reservoir_id = reservoir.id
                        /\ d.water_level = widgets'.water_level_input
                        /\ d.storage = widgets'.storage_input
                        /\ d.timestamp = clock
                        /\ \A o \in db.realtime_data : o.id # d.id
             ELSE db' = db]_vars

\* A submission went through: the store holds the seed rows and one more.
C8_Witness ==
    /\ last_run = LastRun("main", "rerun", "closed")
    /\ Cardinality(db.realtime_data) = 4
    /\ view.success

\* C9: after every run of main() or init_database(), however it ended, its
\* session is closed.
C9_SessionClosed ==
    last_run.program # "none" => last_run.session = "closed"

\* A run of main() that ended in an error, its session closed.
C9_Witness == last_run = LastRun("main", "error", "closed")

Alerted == {view.alerts[i].name : i \in DOMAIN view.alerts}

RedMarkers ==
    {view.markers[i].name :
        i \in {j \in DOMAIN view.markers : view.markers[j].color = "red"}}

\* C10 as stated: in a run of main() the evaluator is called once per
\* reservoir, and a reservoir is in the alert list exactly when its marker is
\* styled as over-limit.
C10_Original ==
    /\ \A id \in DOMAIN check_calls : check_calls[id] = 1
    /\ Alerted = RedMarkers

\* C10, amended: the evaluator is called once per reservoir for the alert
\* list and, in a run that builds the map, once more per reservoir for the
\* markers, on the same reservoir and reading; in a run that shows the map a
\* reservoir is in the alert list exactly when its marker is red.  A run
\* ended by the rerun after a submission shows alerts and no markers.
C10_TwoPasses ==
    /\ \A id \in DOMAIN check_calls : check_calls[id] \in {1, 2}
    /\ view.markers # <<>> =>
          /\ \A id \in DOMAIN check_calls : check_calls[id] = 2
          /\ Len(view.markers) = Cardinality(DOMAIN check_calls)
          /\ Alerted = RedMarkers
          /\ \A i \in DOMAIN view.markers :
                view.markers[i].tooltip_alert
                   <=> (view.markers[i].color = "red")
    /\ last_run.exit = "rerun" =>
          /\ \A id \in DOMAIN check_calls : check_calls[id] = 1
          /\ view.markers = <<>>

\* A run that showed the map with an alert and a red marker.
C10_Witness ==
    /\ view.markers # <<>>
    /\ Alerted # {}
    /\ Alerted = RedMarkers
    /\ \A id \in DOMAIN check_calls : check_calls[id] = 2

====
